---- MODULE Spec2Model ----
(***************************************************************************)
(* A model of the UTF-8 codec of src/lib.rs: the lazy decoder DecodeUtf8,  *)
(* the slice decoders decode_slice_u32 / decode_slice and the encoder      *)
(* try_encode_utf8 for u32 and char.                                       *)
(*                                                                         *)
(* A byte is a number in 0..255.  A u32 is a record [hi, lo] of two 16-bit *)
(* halves, so that all 32 bits (and the loss of bits shifted out of them)  *)
(* are represented.  A char is the number of its scalar value.             *)
(***************************************************************************)
EXTENDS Integers, Sequences, FiniteSets, TLC

VARIABLES
  test,    \* which driver runs: "decode" (test_decode) or "encode" (test_encode)
  src,     \* the bytes handed to the decoders
  pos,     \* DecodeUtf8's cursor: the number of bytes of src consumed
  out,     \* the items DecodeUtf8::next has returned so far, in order
  marks,   \* the cursor after each returned item
  eof,     \* DecodeUtf8::next has returned None
  slu,     \* the result of decode_slice_u32(src)
  sl,      \* the result of decode_slice(src)
  v,       \* the u32 value to encode
  buf,     \* the destination buffer
  buf0,    \* the destination buffer as it was before the call
  enc      \* the result of try_encode_utf8(v, buf)

vars == <<test, src, pos, out, marks, eof, slu, sl, v, buf, buf0, enc>>

(***************************************************************************)
(* Bounds of the model.                                                    *)
(***************************************************************************)
MaxUnits == 2
MaxBuf == 7

(***************************************************************************)
(* Bit arithmetic on bytes and 16-bit halves.                              *)
(***************************************************************************)
\* The(S) is the element of the one-element set S.  In { F(x) : x \in { e } }
\* the expression e is evaluated once, before F is applied to its value.
The(S) == CHOOSE x \in S : TRUE

\* Operands are at most 16 bits wide.
Bit(a, i) == (a \div (2 ^ i)) % 2

And16(a, b) ==
  IF a = 0 \/ b = 0 THEN 0
  ELSE   Bit(a, 0) * Bit(b, 0)
       + 2 * Bit(a, 1) * Bit(b, 1)
       + 4 * Bit(a, 2) * Bit(b, 2)
       + 8 * Bit(a, 3) * Bit(b, 3)
       + 16 * Bit(a, 4) * Bit(b, 4)
       + 32 * Bit(a, 5) * Bit(b, 5)
       + 64 * Bit(a, 6) * Bit(b, 6)
       + 128 * Bit(a, 7) * Bit(b, 7)
       + 256 * Bit(a, 8) * Bit(b, 8)
       + 512 * Bit(a, 9) * Bit(b, 9)
       + 1024 * Bit(a, 10) * Bit(b, 10)
       + 2048 * Bit(a, 11) * Bit(b, 11)
       + 4096 * Bit(a, 12) * Bit(b, 12)
       + 8192 * Bit(a, 13) * Bit(b, 13)
       + 16384 * Bit(a, 14) * Bit(b, 14)
       + 32768 * Bit(a, 15) * Bit(b, 15)

\* a & b
BitAnd(a, b) == The({ And16(o[1], o[2]) : o \in { <<a, b>> } })

\* a | b
BitOr(a, b) == The({ o[1] + o[2] - And16(o[1], o[2]) : o \in { <<a, b>> } })

\* the number of bits up to and including the highest set bit
BitLen(n) == Cardinality({ i \in 0..15 : n >= 2 ^ i })

Not8(b) == 255 - b

LeadingZeros8(b) == 8 - BitLen(b)

Shr8(b, n) == b \div (2 ^ n)

(***************************************************************************)
(* u32 values.                                                             *)
(***************************************************************************)
U32(hi, lo) == [hi |-> hi, lo |-> lo]

ByteAsU32(b) == U32(0, b)

FromNat(n) == U32(n \div 65536, n % 65536)

ToNat(w) == w.hi * 65536 + w.lo

Shl6(w) == U32((w.hi * 64 + w.lo \div 1024) % 65536, (w.lo * 64) % 65536)

\* Shr6 with the slip `self >>= 5`
Shr6By5(w) == U32(w.hi \div 32, (w.hi % 32) * 2048 + w.lo \div 32)

Shr6(w) == U32(w.hi \div 64, (w.hi % 64) * 1024 + w.lo \div 64)

Or32(w, u) == U32(BitOr(w.hi, u.hi), BitOr(w.lo, u.lo))

And32(w, u) == U32(BitAnd(w.hi, u.hi), BitAnd(w.lo, u.lo))

AsU8(w) == w.lo % 256

LeadingZeros32(w) ==
  IF w.hi > 0 THEN 16 - BitLen(w.hi) ELSE 32 - BitLen(w.lo)

(***************************************************************************)
(* core::char::from_u32 and char::len_utf8, as lib.rs uses them.           *)
(***************************************************************************)
NoChar == [some |-> FALSE, c |-> 0]

SomeChar(c) == [some |-> TRUE, c |-> c]

from_u32(w) ==
  IF w.hi > \h10 THEN NoChar
  ELSE IF w.hi = 0 /\ w.lo >= \hD800 /\ w.lo <= \hDFFF THEN NoChar
  ELSE SomeChar(ToNat(w))

len_utf8(c) ==
  IF c < \h80 THEN 1
  ELSE IF c < \h800 THEN 2
  ELSE IF c < \h10000 THEN 3
  ELSE 4

(***************************************************************************)
(* DecodeUtf8::next.  The Peekable cursor is the number p of bytes of bs   *)
(* already consumed: peek looks at bs[p + 1], next also advances p.        *)
(***************************************************************************)
OkItem(c) == [tag |-> "Ok", c |-> c]

InvalidSequence == [tag |-> "Err", c |-> 0]

EndOfInput == [tag |-> "None", c |-> 0]

Pulled(item, p) == [item |-> item, pos |-> p]

\* ContinuationLoop with the slip of taking the byte with next() instead
\* of looking at it with peek(): a byte that is no continuation is consumed
RECURSIVE ContinuationLoopNext(_, _, _, _)
ContinuationLoopNext(bs, p, x, k) ==
  IF k = 0 THEN [ok |-> TRUE, x |-> x, pos |-> p]
  ELSE IF p < Len(bs) /\ BitAnd(bs[p + 1], \hC0) = \h80
       THEN The({ ContinuationLoopNext(bs, n[1], n[2], n[3]) :
                    n \in { << p + 1,
                               Or32(Shl6(x),
                                    And32(ByteAsU32(bs[p + 1]), U32(0, \h3F))),
                               k - 1 >> } })
       ELSE [ok |-> FALSE, x |-> x,
             pos |-> IF p < Len(bs) THEN p + 1 ELSE p]

\* the loop `for _ in 0..l-1` with k iterations left
RECURSIVE ContinuationLoop(_, _, _, _)
ContinuationLoop(bs, p, x, k) ==
  IF k = 0 THEN [ok |-> TRUE, x |-> x, pos |-> p]
  ELSE IF p < Len(bs) /\ BitAnd(bs[p + 1], \hC0) = \h80
       THEN The({ ContinuationLoop(bs, n[1], n[2], n[3]) :
                    n \in { << p + 1,
                               Or32(Shl6(x),
                                    And32(ByteAsU32(bs[p + 1]), U32(0, \h3F))),
                               k - 1 >> } })
       ELSE [ok |-> FALSE, x |-> x, pos |-> p]

\* Validate with the slip of leaving out the guard `l == x.len_utf8()`
ValidateAnyLength(l, x) ==
  LET ch == from_u32(x) IN
  IF ch.some THEN OkItem(ch.c) ELSE InvalidSequence

\* the closing `match from_u32(x)`
Validate(l, x) ==
  LET ch == from_u32(x) IN
  IF ch.some /\ l = len_utf8(ch.c) THEN OkItem(ch.c) ELSE InvalidSequence

\* the outcome of the pull once the loop has ended with r
AfterLoop(l, r) ==
  IF ~r.ok THEN Pulled(InvalidSequence, r.pos)
  ELSE Pulled(Validate(l, r.x), r.pos)

\* DecodeNext with the slip `l > 7` in the range check of l
DecodeNextUpTo7(bs, p) ==
  IF p >= Len(bs) THEN Pulled(EndOfInput, p)
  ELSE
    LET b == bs[p + 1] IN
    IF BitAnd(b, \h80) = 0 THEN Pulled(OkItem(b), p + 1)
    ELSE
      LET l == LeadingZeros8(Not8(b)) IN
      IF l < 2 \/ l > 7 THEN Pulled(InvalidSequence, p + 1)
      ELSE
        LET x0 == And32(ByteAsU32(b), U32(0, Shr8(\h7F, l)))
        IN The({ AfterLoop(l, r) :
                   r \in { ContinuationLoop(bs, p + 1, x0, l - 1) } })

DecodeNext(bs, p) ==
  IF p >= Len(bs) THEN Pulled(EndOfInput, p)
  ELSE
    LET b == bs[p + 1] IN
    IF BitAnd(b, \h80) = 0 THEN Pulled(OkItem(b), p + 1)
    ELSE
      LET l == LeadingZeros8(Not8(b)) IN
      IF l < 2 \/ l > 6 THEN Pulled(InvalidSequence, p + 1)
      ELSE
        LET x0 == And32(ByteAsU32(b), U32(0, Shr8(\h7F, l)))
        IN The({ AfterLoop(l, r) :
                   r \in { ContinuationLoop(bs, p + 1, x0, l - 1) } })

(***************************************************************************)
(* decode_slice_u32 and decode_slice.                                      *)
(***************************************************************************)
NotCalled == [some |-> FALSE, x |-> U32(0, 0), n |-> 0, called |-> FALSE]

None == [some |-> FALSE, x |-> U32(0, 0), n |-> 0, called |-> TRUE]

Some(x, n) == [some |-> TRUE, x |-> x, n |-> n, called |-> TRUE]

\* the loop over bs.iter().cloned().take(l - 1)
RECURSIVE TakeLoop(_, _, _)
TakeLoop(bs, x, k) ==
  IF k = 0 \/ bs = <<>> THEN x
  ELSE TakeLoop(Tail(bs),
                Or32(Shl6(x), And32(ByteAsU32(Head(bs)), U32(0, \h3F))),
                k - 1)

\* decode_slice_u32 with the slip `l >= bs_l` in the length check
decode_slice_u32_exact(bs) ==
  LET bs_l == Len(bs) IN
  IF bs = <<>> THEN None
  ELSE
    LET b0 == Head(bs)
        l  == LeadingZeros8(Not8(b0))
    IN IF l >= bs_l THEN None
       ELSE IF 0 = l THEN Some(ByteAsU32(b0), 1)
       ELSE LET x == And32(ByteAsU32(b0), U32(0, Shr8(\h7F, l)))
            IN Some(TakeLoop(Tail(bs), x, l - 1), l)

decode_slice_u32(bs) ==
  LET bs_l == Len(bs) IN
  IF bs = <<>> THEN None
  ELSE
    LET b0 == Head(bs)
        l  == LeadingZeros8(Not8(b0))
    IN IF l > bs_l THEN None
       ELSE IF 0 = l THEN Some(ByteAsU32(b0), 1)
       ELSE LET x == And32(ByteAsU32(b0), U32(0, Shr8(\h7F, l)))
            IN Some(TakeLoop(Tail(bs), x, l - 1), l)

decode_slice(bs) ==
  LET r == decode_slice_u32(bs) IN
  IF ~r.some THEN None
  ELSE LET ch == from_u32(r.x) IN
       IF ch.some THEN Some(FromNat(ch.c), r.n) ELSE None

(***************************************************************************)
(* <u32 as UtfExt>::try_encode_utf8 and <char as UtfExt>::try_encode_utf8. *)
(***************************************************************************)
F0 == 0
F1 == 1
F2 == 2
F3 == 3
F4 == 4
F5 == 5
F6 == 6

\* ls with the slip of F6 for F5 at index 6
ls_slip == << F0, F6, F6, F6, F6, F6, F6, F5,
              F5, F5, F5, F4, F4, F4, F4, F4,
              F3, F3, F3, F3, F3, F2, F2, F2,
              F2, F1, F1, F1, F1, F1, F1, F1, F1 >>

\* the table ls, indexed here from 1 (Rust index leading_zeros + 1)
ls == << F0, F6, F6, F6, F6, F6, F5, F5,
         F5, F5, F5, F4, F4, F4, F4, F4,
         F3, F3, F3, F3, F3, F2, F2, F2,
         F2, F1, F1, F1, F1, F1, F1, F1, F1 >>

EncNotCalled == [some |-> FALSE, l |-> 0, bs |-> <<>>, by |-> "none"]

EncNone(bs) == [some |-> FALSE, l |-> 0, bs |-> bs, by |-> "u32"]

EncSome(l, bs) == [some |-> TRUE, l |-> l, bs |-> bs, by |-> "u32"]

\* the loop `for b in bs.iter_mut().rev()` over positions i, i - 1, ..., 2
RECURSIVE WriteLoop(_, _, _)
WriteLoop(bs, w, i) ==
  IF i < 2 THEN [bs |-> bs, w |-> w]
  ELSE WriteLoop([bs EXCEPT ![i] = BitOr(BitAnd(AsU8(w), \h3F), \h80)],
                 Shr6(w), i - 1)

\* try_encode_utf8 with the slip of writing the leading byte before the
\* length of the buffer is checked
try_encode_utf8_early(w, bs) ==
  LET l     == ls[LeadingZeros32(w) + 1]
      first == Not8(Shr8(\hFF, l))
  IN IF l > Len(bs)
     THEN EncNone(IF bs = <<>> THEN bs ELSE [bs EXCEPT ![1] = first])
     ELSE IF l = 0 THEN EncNone(bs)
     ELSE LET r  == WriteLoop(bs, w, l)
              b0 == BitOr(AsU8(r.w), IF l > 1 THEN first ELSE 0)
          IN EncSome(l, [r.bs EXCEPT ![1] = b0])

try_encode_utf8(w, bs) ==
  LET l     == ls[LeadingZeros32(w) + 1]
      first == Not8(Shr8(\hFF, l))
  IN IF l > Len(bs) THEN EncNone(bs)
     ELSE IF l = 0 THEN EncNone(bs)
     ELSE LET r  == WriteLoop(bs, w, l)
              b0 == BitOr(AsU8(r.w), IF l > 1 THEN first ELSE 0)
          IN EncSome(l, [r.bs EXCEPT ![1] = b0])

char_try_encode_utf8(c, bs) ==
  [try_encode_utf8(FromNat(c), bs) EXCEPT !.by = "char"]

\* the bytes of the returned sub-buffer bs0
Written(e) == SubSeq(e.bs, 1, e.l)

(***************************************************************************)
(* Inputs.  Packed(n, l) is the l-byte UTF-8 form of n as RFC 2279 lays it *)
(* out: the canonical encoding when l is the least length that holds n, an *)
(* overlong encoding when l is greater.                                    *)
(***************************************************************************)
Marker(l) == IF l = 1 THEN 0 ELSE 256 - 2 ^ (8 - l)

Packed(n, l) ==
  [i \in 1..l |->
     IF i = 1 THEN Marker(l) + n \div (64 ^ (l - 1))
     ELSE \h80 + ((n \div (64 ^ (l - i))) % 64)]

CanonicalLength(n) ==
  IF n < \h80 THEN 1
  ELSE IF n < \h800 THEN 2
  ELSE IF n < \h10000 THEN 3
  ELSE IF n < \h200000 THEN 4
  ELSE IF n < \h4000000 THEN 5
  ELSE 6

IsScalar(n) == n <= \h10FFFF /\ ~(n >= \hD800 /\ n <= \hDFFF)

\* Units that occur at every place of a source: single bytes of every
\* class, and the sequences of test_decode.
CoreBytes == { \h41, \h7F, \h80, \hBF, \hC0, \hC2, \hFD, \hFE, \hFF }

CoreUnits ==
  { <<b>> : b \in CoreBytes }
    \cup { <<\hE2, \h99, \hA5>>, <<\hE2, \h99>>, <<\hC1, \h81>>,
           Packed(\hD800, 3), Packed(\h10000, 4), Packed(\h4000000, 6) }

\* Units that occur at the head of a source: the encodings of the values
\* at the edges of the length classes and of the scalar range, overlong
\* encodings of every length, and sequences behind 0xFE and 0xFF.
EdgePoints ==
  { \h80, \h7FF, \h800, \hD7FF, \hDFFF, \hE000, \hFFFF, \h10FFFF,
    \h110000, \h1FFFFF, \h200000, \h7FFFFFFF }

OverlongPoints == { \h41, \h80, \h2665, \h10000 }

EdgeUnits ==
  { Packed(n, CanonicalLength(n)) : n \in EdgePoints }
    \cup UNION { { Packed(n, l) : l \in (CanonicalLength(n) + 1)..6 } :
                 n \in OverlongPoints }
    \cup { <<\hF0, \h90, \h80>>,
           <<\hFE, \h80, \h80, \h80, \h80, \h80, \h80>>,
           <<\hFF, \hBF, \hBF, \hBF, \hBF, \hBF, \hBF, \hBF>> }

RECURSIVE Concats(_)
Concats(k) ==
  IF k = 0 THEN { <<>> }
  ELSE LET S == Concats(k - 1) IN S \cup { s \o u : s \in S, u \in CoreUnits }

Sources ==
  Concats(MaxUnits)
    \cup { e \o s : e \in EdgeUnits, s \in Concats(MaxUnits - 1) }

DecodePoints == EdgePoints \cup { \h41, \h2665, \hD800, \h10000, \h4000000 }

Pow2Points == UNION { { 2 ^ k - 1, 2 ^ k, 2 ^ k + 1 } : k \in 0..30 }

CodePoints ==
  { FromNat(n) : n \in Pow2Points \cup DecodePoints }
    \cup { U32(\h8000, \h0000), U32(\h8000, \h0041),
           U32(\hC000, \h2665), U32(\hFFFF, \hFFFF) }

FillBytes == { \h00, \hFF }

Buffers == { [i \in 1..n |-> f] : n \in 0..MaxBuf, f \in FillBytes }

(***************************************************************************)
(* The state machine.                                                      *)
(***************************************************************************)
InitDecode ==
  /\ test = "decode"
  /\ src \in Sources
  /\ v = U32(0, 0)
  /\ buf = <<>>

InitEncode ==
  /\ test = "encode"
  /\ src = <<>>
  /\ v \in CodePoints
  /\ buf \in Buffers

Init ==
  /\ InitDecode \/ InitEncode
  /\ pos = 0
  /\ out = <<>>
  /\ marks = <<>>
  /\ eof = FALSE
  /\ slu = NotCalled
  /\ sl = NotCalled
  /\ buf0 = buf
  /\ enc = EncNotCalled

\* <DecodeUtf8 as Iterator>::next
Pull ==
  /\ \E r \in { DecodeNext(src, pos) } :
     IF r.item = EndOfInput
     THEN /\ eof' = TRUE
          /\ UNCHANGED <<pos, out, marks>>
     ELSE /\ pos' = r.pos
          /\ out' = Append(out, r.item)
          /\ marks' = Append(marks, r.pos)
          /\ UNCHANGED eof
  /\ UNCHANGED <<test, src, slu, sl, v, buf, buf0, enc>>

CallDecodeSliceU32 ==
  /\ slu' = decode_slice_u32(src)
  /\ UNCHANGED <<test, src, pos, out, marks, eof, sl, v, buf, buf0, enc>>

CallDecodeSlice ==
  /\ sl' = decode_slice(src)
  /\ UNCHANGED <<test, src, pos, out, marks, eof, slu, v, buf, buf0, enc>>

EncodeU32 ==
  /\ test = "encode"
  /\ enc = EncNotCalled
  /\ enc' = try_encode_utf8(v, buf)
  /\ buf' = enc'.bs
  /\ UNCHANGED <<test, src, pos, out, marks, eof, slu, sl, v, buf0>>

EncodeChar ==
  /\ test = "encode"
  /\ enc = EncNotCalled
  /\ from_u32(v).some
  /\ enc' = char_try_encode_utf8(ToNat(v), buf)
  /\ buf' = enc'.bs
  /\ UNCHANGED <<test, src, pos, out, marks, eof, slu, sl, v, buf0>>

\* decode_utf8 over the sub-buffer the encoder returned
DecodeWritten ==
  /\ enc.some
  /\ src = <<>>
  /\ src' = Written(enc)
  /\ pos' = 0
  /\ out' = <<>>
  /\ marks' = <<>>
  /\ eof' = FALSE
  /\ slu' = NotCalled
  /\ sl' = NotCalled
  /\ UNCHANGED <<test, v, buf, buf0, enc>>

Next ==
  \/ Pull
  \/ CallDecodeSliceU32
  \/ CallDecodeSlice
  \/ EncodeU32
  \/ EncodeChar
  \/ DecodeWritten

Spec == Init /\ [][Next]_vars

\* The consumer of the iterator keeps calling next until it returns None
\* (Iterator::eq in test_decode), hence weak fairness of Pull.
FairSpec == Spec /\ WF_vars(Pull)

TypeOK ==
  /\ pos \in 0..Len(src)
  /\ Len(out) = Len(marks)

(***************************************************************************)
(* Vocabulary of the properties: the UTF-8 layout read off the bytes by    *)
(* arithmetic, independently of the decoders above.                        *)
(***************************************************************************)
IsContinuation(b) == b >= \h80 /\ b <= \hBF

\* b is a leading byte announcing a sequence of l bytes
IsLeadOf(b, l) ==
  IF l = 1 THEN b < \h80 ELSE b >= Marker(l) /\ b < Marker(l + 1)

\* bs holds, after its first s bytes, a leading byte of an l-byte sequence
\* and the l - 1 continuation bytes it announces
WellFormedAt(bs, s, l) ==
  /\ s + l <= Len(bs)
  /\ IsLeadOf(bs[s + 1], l)
  /\ \A i \in 2..l : IsContinuation(bs[s + i])

RECURSIVE PayloadAt(_, _, _, _)
PayloadAt(bs, s, l, i) ==
  IF i = 1 THEN bs[s + 1] - Marker(l)
  ELSE PayloadAt(bs, s, l, i - 1) * 64 + (bs[s + i] - \h80)

\* the value an l-byte well-formed sequence carries
ValueAt(bs, s, l) == PayloadAt(bs, s, l, l)

\* bs holds, after its first s bytes, the canonical encoding of a scalar
CanonicalAt(bs, s, l) ==
  /\ WellFormedAt(bs, s, l)
  /\ IsScalar(ValueAt(bs, s, l))
  /\ CanonicalLength(ValueAt(bs, s, l)) = l

\* the cursor before the pull that returned out[i]
StartOf(i) == IF i = 1 THEN 0 ELSE marks[i - 1]

ConsumedBy(i) == marks[i] - StartOf(i)

Fed == src # <<>> /\ src = Written(enc)

\* the length the specification requires for the value w
RequiredLength(w) ==
  IF w.hi >= \h8000 THEN 6 ELSE CanonicalLength(ToNat(w))

(***************************************************************************)
(* Properties of the encoder.                                              *)
(***************************************************************************)

\* C1: round trip.  When char::try_encode_utf8 is given a legal scalar v
\* and a buffer of at least canonical_length(v) bytes it succeeds, writes
\* canonical_length(v) bytes, and decode_slice of the written bytes returns
\* exactly (v, canonical_length(v)).
C1_RoundTrip ==
  (enc.by = "char" /\ Len(buf0) >= CanonicalLength(ToNat(v))) =>
     /\ IsScalar(ToNat(v))
     /\ enc.some
     /\ enc.l = CanonicalLength(ToNat(v))
     /\ (Fed /\ sl.called) => sl = Some(v, CanonicalLength(ToNat(v)))

C1_Witness ==
  /\ enc.by = "char"
  /\ ToNat(v) >= \h10000
  /\ Fed
  /\ sl.some
  /\ sl.n = 4

\* C6: insufficient space.  When the buffer is shorter than the length the
\* value requires, try_encode_utf8 returns None and the buffer is unchanged.
C6_InsufficientSpace ==
  (enc.by # "none" /\ Len(buf0) < RequiredLength(v)) =>
     /\ ~enc.some
     /\ buf = buf0
     /\ enc.bs = buf0

C6_Witness ==
  /\ enc.by # "none"
  /\ v.hi < \h8000
  /\ Len(buf0) >= 1
  /\ Len(buf0) < RequiredLength(v)
  /\ ~enc.some

\* the sub-buffer the encoder returned has the layout of an l-byte sequence
HasLayout(bs, l) ==
  /\ Len(bs) = l
  /\ IsLeadOf(bs[1], l)
  /\ \A i \in 2..l : IsContinuation(bs[i])

\* C7 as stated: for EVERY 32-bit value v the required length is given by
\* the thresholds (6 for every value from 0x4000000 on), and with a buffer
\* of at least that length u32::try_encode_utf8 succeeds and returns a
\* sub-buffer of exactly that length with a leading byte of l one-bits and
\* l - 1 continuation bytes.
C7_AsStated ==
  (enc.by = "u32" /\ Len(buf0) >= RequiredLength(v)) =>
     /\ enc.some
     /\ enc.l = RequiredLength(v)
     /\ HasLayout(Written(enc), enc.l)

\* C7, amended: the same for every value v below 0x80000000.
C7_LengthClasses ==
  (enc.by = "u32" /\ v.hi < \h8000 /\ Len(buf0) >= RequiredLength(v)) =>
     /\ enc.some
     /\ enc.l = RequiredLength(v)
     /\ HasLayout(Written(enc), enc.l)

C7_Witness ==
  /\ enc.by = "u32"
  /\ enc.some
  /\ enc.l = 5
  /\ Len(buf0) = 5

\* C10: raw round trip.  For v below 0x80000000 and a buffer of at least 6
\* bytes u32::try_encode_utf8 returns a sub-buffer of some length l and
\* decode_slice_u32 of that sub-buffer returns exactly (v, l); for v from
\* 0x80000000 on the encoder returns None and leaves the buffer unchanged.
C10_RawRoundTrip ==
  enc.by = "u32" =>
     IF v.hi < \h8000
     THEN Len(buf0) >= 6 =>
            /\ enc.some
            /\ (Fed /\ slu.called) => slu = Some(v, enc.l)
     ELSE ~enc.some /\ buf = buf0

C10_Witness ==
  /\ enc.by = "u32"
  /\ v.hi >= \h0400
  /\ Fed
  /\ slu.some
  /\ slu.n = 6

(***************************************************************************)
(* Properties of the slice decoders.                                       *)
(***************************************************************************)

\* C2: the slice decoder agrees with the lazy decoder.  On a non-empty
\* buffer decode_slice returns Some((c, n)) exactly when the first pull of
\* decode_utf8 over the same bytes yields Ok(c) having consumed n bytes, and
\* None exactly when that pull yields an invalid sequence.
C2_SliceAgreesWithLazy ==
  (src # <<>> /\ sl.called /\ Len(out) >= 1) =>
     /\ sl.some <=> out[1].tag = "Ok"
     /\ sl.some => (out[1].c = ToNat(sl.x) /\ marks[1] = sl.n)
     /\ ~sl.some <=> out[1] = InvalidSequence

\* src is an overlong encoding: a well-formed sequence of 2 to 6 bytes
\* carrying a scalar that a shorter sequence holds
IsOverlong(bs) ==
  \E l \in 2..6 :
     /\ Len(bs) = l
     /\ WellFormedAt(bs, 0, l)
     /\ IsScalar(ValueAt(bs, 0, l))
     /\ CanonicalLength(ValueAt(bs, 0, l)) < l

\* C3: no overlong acceptance.  decode_slice of an overlong encoding of a
\* scalar reports failure and never returns a scalar.
C3_NoOverlongAccepted ==
  (sl.called /\ IsOverlong(src)) => ~sl.some

\* C8: leading-byte classification.  When decode_slice_u32 returns
\* Some((x, n)) the first byte is a valid leading byte, n is the length it
\* announces, 1 <= n <= 6 and n <= len(bs); a buffer whose first byte is a
\* continuation byte, 0xFE or 0xFF is always reported as a failure.
C8_LeadingByteClassified ==
  (slu.called /\ src # <<>>) =>
     /\ slu.some =>
          /\ slu.n >= 1 /\ slu.n <= 6
          /\ IsLeadOf(src[1], slu.n)
          /\ slu.n <= Len(src)
     /\ (IsContinuation(src[1]) \/ src[1] = \hFE \/ src[1] = \hFF) =>
          ~slu.some

(***************************************************************************)
(* Properties of the lazy decoder.                                         *)
(***************************************************************************)

\* the pull that returned out[i] met, after its leading byte of class l and
\* k < l - 1 continuation bytes, the end of the input or another byte
StoppedShort(i, l, k) ==
  LET s == StartOf(i) IN
  /\ IsLeadOf(src[s + 1], l)
  /\ s + 1 + k <= Len(src)
  /\ \A j \in 2..(k + 1) : IsContinuation(src[s + j])
  /\ (s + 1 + k < Len(src)) => ~IsContinuation(src[s + k + 2])

\* C4: resynchronisation.  A pull that stops short yields
\* Err(InvalidSequence) and leaves the non-matching byte unconsumed, so the
\* following pull starts with it; and decoding [m, a], m a malformed
\* leading byte and a an ASCII byte, yields Err, Ok(a) and the end of input.
C4_Resynchronises ==
  /\ \A i \in 1..Len(out) : \A l \in 2..6 : \A k \in 0..(l - 2) :
        StoppedShort(i, l, k) =>
          /\ out[i] = InvalidSequence
          /\ marks[i] = StartOf(i) + 1 + k
          /\ (i < Len(out) /\ src[marks[i] + 1] < \h80) =>
               /\ out[i + 1] = OkItem(src[marks[i] + 1])
               /\ marks[i + 1] = marks[i] + 1
  /\ (Len(src) = 2 /\ src[1] >= \h80 /\ src[2] < \h80) =>
        /\ Len(out) >= 1 => out[1] = InvalidSequence /\ marks[1] = 1
        /\ Len(out) >= 2 => out[2] = OkItem(src[2])
        /\ eof => Len(out) = 2

C4_Witness ==
  /\ Len(src) = 2
  /\ src[1] >= \hC0 /\ src[1] <= \hFD
  /\ src[2] < \h80
  /\ eof
  /\ out = <<InvalidSequence, OkItem(src[2])>>

\* C5: the lazy decoder accepts exactly canonical UTF-8.  A pull yields
\* Ok(c) if and only if the unread bytes begin with the canonical 1 to 4
\* byte encoding of the legal scalar c; it then consumes exactly those
\* bytes, and char::try_encode_utf8 of c writes the same bytes again.  So
\* when the source is exhausted and every unit was canonical, the outcomes
\* are the scalars in order.
C5_AcceptsExactlyCanonical ==
  \A i \in 1..Len(out) :
     LET s == StartOf(i) IN
     /\ out[i].tag = "Ok" <=> \E l \in 1..4 : CanonicalAt(src, s, l)
     /\ \A l \in 1..4 :
          CanonicalAt(src, s, l) =>
            /\ out[i] = OkItem(ValueAt(src, s, l))
            /\ marks[i] = s + l
            /\ Written(char_try_encode_utf8(out[i].c, <<0, 0, 0, 0>>))
                 = SubSeq(src, s + 1, s + l)

C5_Witness ==
  /\ test = "decode"
  /\ eof
  /\ Len(out) = 2
  /\ out[1].tag = "Ok" /\ out[1].c >= \h10000
  /\ out[2].tag = "Ok" /\ out[2].c >= \h800 /\ out[2].c < \h10000

\* C9, the part every state satisfies: every pull consumed 1 to 6 bytes,
\* there are no more outcomes than bytes, the cursor is within the source,
\* and the end of input is reported only when every byte is consumed.
C9_Bounded ==
  /\ \A i \in 1..Len(out) : ConsumedBy(i) >= 1 /\ ConsumedBy(i) <= 6
  /\ Len(out) <= Len(src)
  /\ pos <= Len(src)
  /\ Len(out) >= 1 => pos = marks[Len(out)]
  /\ eof => pos = Len(src)

\* C9, the part every step satisfies: the cursor only moves forward, a pull
\* with an unread byte produces exactly one outcome, and a pull on an
\* exhausted source produces the end of input and no outcome.
C9_Step ==
  /\ pos' >= pos
  /\ (pos' > pos) => Len(out') = Len(out) + 1
  /\ (Pull /\ pos < Len(src)) => (pos' > pos /\ ~eof')
  /\ (Pull /\ pos = Len(src)) => (eof' /\ out' = out /\ pos' = pos)

\* C9: progress and termination of the lazy decoder; under fair pulling
\* the end of the input is eventually reached.
C9_ProgressAndTermination ==
  /\ []C9_Bounded
  /\ [][C9_Step]_vars
  /\ (~eof) ~> eof

C9_Witness ==
  /\ eof
  /\ Len(src) >= 7
  /\ \E i \in 1..Len(out) : ConsumedBy(i) = 6

====
